---- MODULE Spec2Model ----
(***************************************************************************)
(* A model of the path tracer: the integrator `color` (main.rs), the       *)
(* parallel per-pixel renderer (main.rs), the scene intersection scan      *)
(* (model.rs) and the material palette (material.rs).                      *)
(*                                                                         *)
(* Floating point numbers are modelled in fixed point: the integer n       *)
(* stands for the float n / Scale.  Products, quotients and square roots   *)
(* round toward zero to that grid.                                         *)
(***************************************************************************)
EXTENDS Integers, Sequences, FiniteSets, TLC

-----------------------------------------------------------------------------
(* Scalars (f32 / f64)                                                     *)

Scale == 100

F(n) == n * Scale

Abs(a) == IF a < 0 THEN -a ELSE a

\* Quotient of two integers, rounded toward zero.
TDiv(a, b) ==
    IF (a < 0) = (b < 0) THEN Abs(a) \div Abs(b) ELSE -(Abs(a) \div Abs(b))

FMul(a, b) == TDiv(a * b, Scale)

FDiv(a, b) == TDiv(a * Scale, b)

RECURSIVE SqrtSearch(_, _, _)
\* The largest k in lo..hi with k * k <= n (lo * lo <= n < (hi + 1)^2).
SqrtSearch(n, lo, hi) ==
    IF lo >= hi THEN lo
    ELSE LET mid == (lo + hi + 1) \div 2
         IN  IF mid * mid <= n THEN SqrtSearch(n, mid, hi)
             ELSE SqrtSearch(n, lo, mid - 1)

\* f64::sqrt on a non-negative argument (the root of a * Scale is at most
\* the mean of a and Scale).
FSqrt(a) == SqrtSearch(a * Scale, 0, (a + Scale) \div 2 + 1)

-----------------------------------------------------------------------------
(* Vec3                                                                    *)

vec3(x, y, z) == <<x, y, z>>

Vec3_all(f) == vec3(f, f, f)

Vec3_ZERO == Vec3_all(0)

Vec3_ONE == Vec3_all(F(1))

Vec3_add(a, b) == vec3(a[1] + b[1], a[2] + b[2], a[3] + b[3])

Vec3_sub(a, b) == vec3(a[1] - b[1], a[2] - b[2], a[3] - b[3])

Vec3_mul(a, b) == vec3(FMul(a[1], b[1]), FMul(a[2], b[2]), FMul(a[3], b[3]))

Vec3_scale(a, f) == vec3(FMul(a[1], f), FMul(a[2], f), FMul(a[3], f))

Vec3_div(a, f) == vec3(FDiv(a[1], f), FDiv(a[2], f), FDiv(a[3], f))

Vec3_neg(a) == vec3(-a[1], -a[2], -a[3])

Vec3_dot(a, b) == FMul(a[1], b[1]) + FMul(a[2], b[2]) + FMul(a[3], b[3])

Vec3_mag(a) == FSqrt(Vec3_dot(a, a))

Vec3_unit(a) == Vec3_div(a, Vec3_mag(a))

-----------------------------------------------------------------------------
(* Ray                                                                     *)

Ray_new(origin, direction) == [origin |-> origin, direction |-> direction]

Ray_ZERO == Ray_new(Vec3_ZERO, Vec3_ZERO)

Ray_point_at_parameter(r, t) == Vec3_add(r.origin, Vec3_scale(r.direction, t))

-----------------------------------------------------------------------------
(* Option<T>: None is the empty sequence, Some(x) the sequence <<x>>.      *)

None == <<>>

Some(x) == <<x>>

-----------------------------------------------------------------------------
(* Hit and Scatter records                                                 *)

Hit(parameter, point, normal, material) ==
    [parameter |-> parameter, point |-> point, normal |-> normal,
     material |-> material]

Scatter(scattered, attenuation) ==
    [scattered |-> scattered, attenuation |-> attenuation]

-----------------------------------------------------------------------------
(* Materials.  A draw of the ambient random source is the record rnd:      *)
(* rnd.p is the value of random_in_unit_sphere(), rnd.u the value of       *)
(* rand::random::<f64>() in [0, 1).                                        *)

Lambertian_new(albedo) == [kind |-> "Lambertian", albedo |-> albedo]

Metal_new(albedo, fuzz) ==
    [kind |-> "Metal", albedo |-> albedo,
     fuzz |-> IF fuzz < F(1) THEN fuzz ELSE F(1)]

Dielectric_new(ref_idx) == [kind |-> "Dielectric", ref_idx |-> ref_idx]

DiffuseLight_new(emittance) == [kind |-> "DiffuseLight", emittance |-> emittance]

Combined(scatterer, emitter) ==
    [kind |-> "Combined", scatterer |-> scatterer, emitter |-> emitter]

reflect(v, normal) ==
    Vec3_sub(v, Vec3_scale(Vec3_scale(normal, Vec3_dot(v, normal)), F(2)))

Lambertian_scatter(mat, r_in, rec, rnd) ==
    LET target == Vec3_add(Vec3_add(rec.point, rec.normal), rnd.p)
        scattered == Ray_new(rec.point, Vec3_sub(target, rec.point))
    IN  Some(Scatter(scattered, mat.albedo))

\* The test that lets a direction along the surface through.
Metal_leaves_surface_or_grazes(direction, normal) ==
    Vec3_dot(direction, normal) >= 0

\* if scattered.direction.dot(rec.normal) > 0.0
Metal_leaves_surface(direction, normal) == Vec3_dot(direction, normal) > 0

Metal_scatter(mat, r_in, rec, rnd) ==
    LET target == reflect(Vec3_unit(r_in.direction), rec.normal)
        scattered == Ray_new(rec.point,
                             Vec3_add(target, Vec3_scale(rnd.p, mat.fuzz)))
    IN  IF Metal_leaves_surface(scattered.direction, rec.normal)
        THEN Some(Scatter(scattered, mat.albedo))
        ELSE None

\* f64::powi(x, 5)
Powi5(x) == FMul(FMul(FMul(FMul(x, x), x), x), x)

Dielectric_schlick(cosine, ref_idx) ==
    LET r0 == FDiv(F(1) - ref_idx, F(1) + ref_idx)
        r1 == FMul(r0, r0)
    IN  r1 + FMul(F(1) - r1, Powi5(F(1) - cosine))

Dielectric_refract(v, normal, ni_over_nt) ==
    LET uv == Vec3_unit(v)
        dt == Vec3_dot(uv, normal)
        discriminant ==
            F(1) - FMul(FMul(ni_over_nt, ni_over_nt), F(1) - FMul(dt, dt))
    IN  IF discriminant > 0
        THEN Some(Vec3_sub(Vec3_scale(Vec3_sub(uv, Vec3_scale(normal, dt)),
                                      ni_over_nt),
                           Vec3_scale(normal, FSqrt(discriminant))))
        ELSE None

\* Total internal reflection that reflects with probability zero.
Dielectric_tir_probability_zero == F(0)

\* reflect_probability when refract returns None: 1.0
Dielectric_tir_probability == F(1)

\* The square root of a negative number is NaN, and every comparison
\* with NaN is false: cosineNaN records that case.
Dielectric_scatter(mat, r_in, rec, rnd) ==
    LET d == Vec3_dot(r_in.direction, rec.normal)
        leaving == d > 0
        outward_normal == IF leaving THEN Vec3_neg(rec.normal) ELSE rec.normal
        ni_over_nt == IF leaving THEN mat.ref_idx ELSE FDiv(F(1), mat.ref_idx)
        cosine0 == FDiv(d, Vec3_mag(r_in.direction))
        radicand ==
            F(1) - FMul(FMul(mat.ref_idx, mat.ref_idx),
                        F(1) - FMul(cosine0, cosine0))
        cosineNaN == leaving /\ radicand < 0
        cosine == IF leaving
                  THEN (IF cosineNaN THEN 0 ELSE FSqrt(radicand))
                  ELSE -cosine0
        refract_result ==
            Dielectric_refract(r_in.direction, outward_normal, ni_over_nt)
        reflects ==
            IF refract_result # None
            THEN ~cosineNaN /\ rnd.u < Dielectric_schlick(cosine, mat.ref_idx)
            ELSE rnd.u < Dielectric_tir_probability
    IN  Some(Scatter(
            IF reflects
            THEN Ray_new(rec.point, reflect(r_in.direction, rec.normal))
            ELSE Ray_new(rec.point,
                         IF refract_result # None THEN refract_result[1]
                         ELSE Vec3_ZERO),
            Vec3_ONE))

\* A light that emits white whatever its emittance.
DiffuseLight_emit_white(mat, rec) == Vec3_ONE

DiffuseLight_emit(mat, rec) == mat.emittance

RECURSIVE Material_scatter(_, _, _, _)
RECURSIVE Material_emit(_, _)

\* Combined delegates scattering to its scatterer ...
Combined_scatter(mat, r_in, rec, rnd) ==
    Material_scatter(mat.scatterer, r_in, rec, rnd)

\* ... and emission to its emitter.
Combined_emit(mat, rec) == Material_emit(mat.emitter, rec)

Material_scatter(mat, r_in, rec, rnd) ==
    CASE mat.kind = "Lambertian" -> Lambertian_scatter(mat, r_in, rec, rnd)
      [] mat.kind = "Metal" -> Metal_scatter(mat, r_in, rec, rnd)
      [] mat.kind = "Dielectric" -> Dielectric_scatter(mat, r_in, rec, rnd)
      [] mat.kind = "Combined" -> Combined_scatter(mat, r_in, rec, rnd)
      [] OTHER -> None

\* Emission with no arm for Combined: it falls to `_ => Vec3::ZERO`.
Material_emit_lights_only(mat, rec) ==
    CASE mat.kind = "DiffuseLight" -> DiffuseLight_emit(mat, rec)
      [] OTHER -> Vec3_ZERO

Material_emit(mat, rec) ==
    CASE mat.kind = "DiffuseLight" -> DiffuseLight_emit(mat, rec)
      [] mat.kind = "Combined" -> Combined_emit(mat, rec)
      [] OTHER -> Vec3_ZERO

\* The Scatter value `color` destructures: an absorbed ray is the all-zero
\* Scatter.
Scatter_or_zero(opt) ==
    IF opt = None THEN Scatter(Ray_ZERO, Vec3_ZERO) ELSE opt[1]

-----------------------------------------------------------------------------
(* Model: Sphere | List                                                    *)

Sphere_new(center, radius, material) ==
    [kind |-> "Sphere", center |-> center, radius |-> radius,
     material |-> material]

Model_sphere(center, radius, material) == Sphere_new(center, radius, material)

Model_list(vec) == [kind |-> "List", list |-> vec]

\* The range test that accepts a root on the boundary of the range.
Sphere_in_range_closed(parameter, t_min, t_max) ==
    t_min <= parameter /\ parameter <= t_max

\* if t_min < parameter && parameter < t_max
Sphere_in_range(parameter, t_min, t_max) ==
    t_min < parameter /\ parameter < t_max

Sphere_hit(s, r, t_min, t_max) ==
    LET oc == Vec3_sub(r.origin, s.center)
        a == Vec3_dot(r.direction, r.direction)
        b == Vec3_dot(oc, r.direction)
        c == Vec3_dot(oc, oc) - FMul(s.radius, s.radius)
        discriminant == FMul(b, b) - FMul(a, c)
        HitAt(parameter) ==
            LET point == Ray_point_at_parameter(r, parameter)
            IN  Hit(parameter, point,
                    Vec3_div(Vec3_sub(point, s.center), s.radius), s.material)
    IN  IF discriminant > 0
        THEN LET p1 == FDiv(-b - FSqrt(discriminant), a)
                 p2 == FDiv(-b + FSqrt(discriminant), a)
             IN  IF Sphere_in_range(p1, t_min, t_max) THEN Some(HitAt(p1))
                 ELSE IF Sphere_in_range(p2, t_min, t_max) THEN Some(HitAt(p2))
                 ELSE None
        ELSE None

\* The state of the scan of a list: <<closest_so_far, hit_record>>.
\* The scan that does not narrow the range after a hit.
List_scan_update_keep_range(acc, found) ==
    IF found # None THEN <<acc[1], found>> ELSE acc

\* if let Some(hit) = ... { closest_so_far = hit.parameter; hit_record = Some(hit); }
List_scan_update(acc, found) ==
    IF found # None THEN <<found[1].parameter, found>> ELSE acc

RECURSIVE Model_hit(_, _, _, _)
RECURSIVE List_scan(_, _, _, _, _)

\* for hittable in list { ... } from the child at index i on.
List_scan(list, i, r, t_min, acc) ==
    IF i > Len(list) THEN acc
    ELSE List_scan(list, i + 1, r, t_min,
                   List_scan_update(acc, Model_hit(list[i], r, t_min, acc[1])))

Model_hit(m, r, t_min, t_max) ==
    IF m.kind = "Sphere" THEN Sphere_hit(m, r, t_min, t_max)
    ELSE List_scan(m.list, 1, r, t_min, <<t_max, None>>)[2]

-----------------------------------------------------------------------------
(* The material palette and scene of main.rs                               *)

mat_1 == Lambertian_new(vec3(10, 20, 50))
mat_2 == Lambertian_new(vec3(80, 80, 0))
mat_3 == Metal_new(vec3(80, 60, 20), 0)
mat_4 == Dielectric_new(150)
mat_5 == DiffuseLight_new(vec3(100, 90, 40))
mat_6 == Combined(mat_3, mat_5)

\* A matte material that reflects nothing: its attenuation is Vec3::ZERO.
mat_black == Lambertian_new(Vec3_ZERO)

Palette == {mat_1, mat_2, mat_3, mat_4, mat_5, mat_6, mat_black}

-----------------------------------------------------------------------------
(* Bounded inputs of the integrator                                        *)

\* Largest max_bounce explored.
MaxDepth == 2

\* Values of random_in_unit_sphere(): points strictly inside the unit sphere.
RandPoints == {vec3(0, 0, 0), vec3(50, 0, 0)}

\* Values of rand::random::<f64>().
RandUniform == {0, 99}

Rnd == [p : RandPoints, u : RandUniform]

\* Rays the camera hands to the integrator.
CameraRays == {Ray_new(vec3(0, 0, F(5)), vec3(0, 0, F(-1))),
               Ray_new(vec3(0, 0, F(5)), vec3(F(1), 0, F(-1)))}

\* What world.hit may return for some scene: no hit, or a hit on a surface
\* of any material of the palette.
HitPoints == {vec3(0, 0, 0), vec3(0, 0, F(1))}

HitNormals == {vec3(0, 0, F(1)), vec3(0, 0, F(-1))}

HitOutcomes ==
    {None} \cup
    {Some(Hit(F(1), pt, n, m)) : pt \in HitPoints, n \in HitNormals, m \in Palette}

-----------------------------------------------------------------------------
(* State                                                                   *)

VARIABLES
    \* fn color: its parameters and locals
    ray, max_bounce, factor, emit, bounces,
    \* position of the call ("tracing" or "done"), its return value and
    \* the way it left the loop ("nohit", "cap", "absorb")
    pc, result, exit,
    \* history of the call: calls of world.hit, Material::scatter and
    \* Material::emit so far, the attenuations and emissions of the
    \* scattering bounces, and the last intersection test: its outcome, the
    \* value of bounces when it was made, and what scatter returned for it
    hitCalls, scatterCalls, emitCalls, atts, ems, lastHit, lastBounces, lastScat

VARIABLES
    \* the scene under construction or under test, and the position of the
    \* intersection test ("build", "scan", "done")
    world, hpc,
    \* Model::hit on the List `world`: its arguments, the index of the child
    \* scanned next, its locals and its return value
    hit_ray, t_min, t_max, idx, closest_so_far, hit_record, hit_result

hitVars == <<world, hpc, hit_ray, t_min, t_max, idx, closest_so_far,
             hit_record, hit_result>>

VARIABLES
    \* fn main: the image size, the per-pixel items of the parallel
    \* iterator (None until the map closure has run for the pixel), the set
    \* of pixels whose item has passed `inspect`, the progress bar position,
    \* the collected Vec, the image buffer, the index of the for_each over
    \* the Vec, and the position of main ("render", "write", "saved", "panic")
    nx, ny, item, inspected, pb, collected, buf, wi, rpc,
    \* the seed of the random source, which decides what the samples of each
    \* pixel return
    seed,
    \* history: the sample sum `col` computed for each pixel, and how many
    \* times each coordinate of the buffer was written
    drawn, written

renderVars == <<nx, ny, item, inspected, pb, collected, buf, wi, rpc, seed,
                drawn, written>>

VARIABLES
    \* a material under construction and use: the material (None before its
    \* constructor ran), the fuzz argument its constructor was given (None
    \* unless it was built by Metal::new), and the last call of scatter or
    \* emit on it with its arguments and its return value
    mat, fuzz_arg, call

matVars == <<mat, fuzz_arg, call>>

colorVars == <<ray, max_bounce, factor, emit, bounces, pc, result, exit,
               hitCalls, scatterCalls, emitCalls, atts, ems, lastHit,
               lastBounces, lastScat>>

vars == <<colorVars, hitVars, renderVars, matVars>>

\* The values of the variables of a component that a specification does
\* not exercise.
IdleColor ==
    /\ ray = Ray_ZERO /\ max_bounce = 0 /\ factor = Vec3_ONE
    /\ emit = Vec3_ZERO /\ bounces = 0 /\ pc = "idle"
    /\ result = Vec3_ZERO /\ exit = "none" /\ hitCalls = 0
    /\ scatterCalls = 0 /\ emitCalls = 0 /\ atts = <<>> /\ ems = <<>>
    /\ lastHit = None /\ lastBounces = 0 /\ lastScat = None

IdleHit ==
    /\ world = Model_list(<<>>) /\ hpc = "idle" /\ hit_ray = Ray_ZERO
    /\ t_min = 0 /\ t_max = 0 /\ idx = 0 /\ closest_so_far = 0
    /\ hit_record = None /\ hit_result = None

IdleMat == mat = None /\ fuzz_arg = None /\ call = None

IdleRender ==
    /\ nx = 0 /\ ny = 0 /\ item = <<>> /\ inspected = {} /\ pb = 0
    /\ collected = <<>> /\ buf = <<>> /\ wi = 0 /\ rpc = "idle"
    /\ seed = 0 /\ drawn = <<>> /\ written = <<>>

-----------------------------------------------------------------------------
(* fn color(ray, world, max_bounce)                                        *)

sky_color == Vec3_ZERO

\* The cap tested one bounce too late.
color_cap_strict(b, max) == b > max

\* if bounces >= max_bounce { break; }
color_cap(b, max) == b >= max

\* Absorption recognised only when both the ray and the attenuation are zero.
color_absorbed_both(sc) == sc.scattered = Ray_ZERO /\ sc.attenuation = Vec3_ZERO

\* if scattered == Ray::ZERO || attenuation == Vec3::ZERO
color_absorbed(sc) == sc.scattered = Ray_ZERO \/ sc.attenuation = Vec3_ZERO

\* The accumulated emission left out of the final expression.
color_final_no_emit(f, e) == Vec3_mul(f, sky_color)

\* factor * (sky_color + emit)
color_final(f, e) == Vec3_mul(f, Vec3_add(sky_color, e))

\* return factor * rec.material.emit(rec)
color_absorb_result(f, rec) == Vec3_mul(f, Material_emit(rec.material, rec))

\* The emission of the latest hit assigned instead of added.
color_emit_update_assign(e, rec) == Material_emit(rec.material, rec)

\* emit += rec.material.emit(rec)
color_emit_update(e, rec) == Vec3_add(e, Material_emit(rec.material, rec))

InitColor ==
    /\ ray \in CameraRays
    /\ max_bounce \in 0..MaxDepth
    /\ factor = Vec3_ONE
    /\ emit = Vec3_ZERO
    /\ bounces = 0
    /\ pc = "tracing"
    /\ result = Vec3_ZERO
    /\ exit = "none"
    /\ hitCalls = 0
    /\ scatterCalls = 0
    /\ emitCalls = 0
    /\ atts = <<>>
    /\ ems = <<>>
    /\ lastHit = None
    /\ lastBounces = 0
    /\ lastScat = None
    /\ IdleHit
    /\ IdleRender
    /\ IdleMat

\* The loop condition found no hit: the loop ends and the final expression
\* is returned.
ColorNoHit ==
    /\ pc = "tracing"
    /\ hitCalls' = hitCalls + 1
    /\ lastHit' = None
    /\ lastBounces' = bounces
    /\ lastScat' = None
    /\ result' = color_final(factor, emit)
    /\ pc' = "done"
    /\ exit' = "nohit"
    /\ UNCHANGED <<ray, max_bounce, factor, emit, bounces, scatterCalls,
                   emitCalls, atts, ems>>
    /\ UNCHANGED <<hitVars, renderVars, matVars>>

\* One iteration of the loop body for the hit h, with the random draw rnd.
ColorHit(h, rnd) ==
    /\ pc = "tracing"
    /\ h # None
    /\ hitCalls' = hitCalls + 1
    /\ lastHit' = h
    /\ lastBounces' = bounces
    /\ LET rec == h[1]
           opt == Material_scatter(rec.material, ray, rec, rnd)
           sc == Scatter_or_zero(opt)
       IN  IF color_cap(bounces, max_bounce)
           THEN /\ result' = color_final(factor, emit)
                /\ pc' = "done"
                /\ exit' = "cap"
                /\ lastScat' = None
                /\ UNCHANGED <<ray, factor, emit, bounces, scatterCalls,
                               emitCalls, atts, ems>>
           ELSE IF color_absorbed(sc)
           THEN /\ result' = color_absorb_result(factor, rec)
                /\ pc' = "done"
                /\ exit' = "absorb"
                /\ lastScat' = Some(opt)
                /\ scatterCalls' = scatterCalls + 1
                /\ emitCalls' = emitCalls + 1
                /\ UNCHANGED <<ray, factor, emit, bounces, atts, ems>>
           ELSE /\ ray' = sc.scattered
                /\ factor' = Vec3_mul(factor, sc.attenuation)
                /\ emit' = color_emit_update(emit, rec)
                /\ bounces' = bounces + 1
                /\ lastScat' = Some(opt)
                /\ scatterCalls' = scatterCalls + 1
                /\ emitCalls' = emitCalls + 1
                /\ atts' = Append(atts, sc.attenuation)
                /\ ems' = Append(ems, Material_emit(rec.material, rec))
                /\ UNCHANGED <<pc, result, exit>>
    /\ UNCHANGED max_bounce
    /\ UNCHANGED <<hitVars, renderVars, matVars>>

NextColor ==
    \/ ColorNoHit
    \/ \E h \in HitOutcomes, rnd \in Rnd : ColorHit(h, rnd)

SpecColor == InitColor /\ [][NextColor]_vars

-----------------------------------------------------------------------------
(* Properties of the integrator                                            *)

RECURSIVE ProdSeq(_)
\* Component-wise product of a sequence of attenuations (all-ones if empty).
ProdSeq(sq) ==
    IF sq = <<>> THEN Vec3_ONE
    ELSE Vec3_mul(ProdSeq(SubSeq(sq, 1, Len(sq) - 1)), sq[Len(sq)])

RECURSIVE SumSeq(_)
\* Sum of a sequence of emissions (zero if empty).
SumSeq(sq) ==
    IF sq = <<>> THEN Vec3_ZERO
    ELSE Vec3_add(SumSeq(SubSeq(sq, 1, Len(sq) - 1)), sq[Len(sq)])

\* The material absorbed the ray: scatter returned nothing, or a Scatter
\* whose ray or attenuation is all-zero.
Absorbs(opt) ==
    \/ opt = None
    \/ opt[1].scattered = Ray_ZERO
    \/ opt[1].attenuation = Vec3_ZERO

\* C1: one call of color performs at most max_bounce + 1 intersection
\* tests, and it terminates: every step is one intersection test, and a call
\* that has not returned has made at most max_bounce of them.
C1_AtMostMaxDepthPlusOneHits ==
    /\ hitCalls <= max_bounce + 1
    /\ pc = "tracing" => hitCalls = bounces /\ hitCalls <= max_bounce
    /\ pc = "done" => hitCalls = bounces + 1

\* C1 witness: every intersection test hit and every hit scattered, up to the
\* cap: max_bounce + 1 tests were made.
C1_Witness ==
    /\ pc = "done"
    /\ exit = "cap"
    /\ max_bounce = MaxDepth
    /\ hitCalls = max_bounce + 1
    /\ scatterCalls = max_bounce

\* C2 (as stated): when the intersection test returns no hit, color returns
\* throughput * backgroundColor and nothing else is added.
C2_NoHitReturnsThroughputTimesBackground ==
    (pc = "done" /\ exit = "nohit") =>
        result = Vec3_mul(ProdSeq(atts), sky_color)

\* C2 (amended): when the intersection test returns no hit, color terminates
\* and returns throughput * (backgroundColor + accumulatedEmission), where
\* accumulatedEmission is the sum of the emissions of the earlier scattering
\* hits; with no earlier bounce that is backgroundColor itself.
C2_NoHitReturnsThroughputTimesBackgroundPlusEmission ==
    (hitCalls > 0 /\ lastHit = None) =>
        /\ pc = "done"
        /\ exit = "nohit"
        /\ result = Vec3_mul(ProdSeq(atts), Vec3_add(sky_color, SumSeq(ems)))
        /\ bounces = 0 => result = sky_color

\* C2 witness: no hit after a bounce off a surface that scatters and emits.
C2_Witness ==
    /\ pc = "done"
    /\ exit = "nohit"
    /\ bounces > 0
    /\ SumSeq(ems) # Vec3_ZERO
    /\ result # Vec3_ZERO

\* C3: a hit below the depth cap whose material absorbs ends the call at
\* once with throughput * material.emit(hit).
C3_AbsorbReturnsThroughputTimesEmit ==
    (lastHit # None /\ lastBounces < max_bounce /\ lastScat # None
        /\ Absorbs(lastScat[1])) =>
        /\ pc = "done"
        /\ exit = "absorb"
        /\ bounces = lastBounces
        /\ result = Vec3_mul(ProdSeq(atts),
                             Material_emit(lastHit[1].material, lastHit[1]))

\* C3 witness: after one bounce the ray is absorbed by a light and the
\* attenuated emission is returned.
C3_Witness ==
    /\ pc = "done"
    /\ exit = "absorb"
    /\ bounces > 0
    /\ lastScat = Some(None)
    /\ result # Vec3_ZERO
    /\ result # Material_emit(lastHit[1].material, lastHit[1])

\* C3 witness of the degenerate case: the material scattered with an
\* all-zero attenuation.
C3_WitnessZeroAttenuation ==
    /\ exit = "absorb"
    /\ lastScat # None
    /\ lastScat[1] # None
    /\ lastScat[1][1].attenuation = Vec3_ZERO

\* C4: a hit at or beyond the depth cap ends the call without a call of
\* scatter or emit for that hit, and returns what the earlier bounces
\* accumulated; with max_bounce = 0 that is the zero-bounce result.
C4_CapReturnsAccumulated ==
    (lastHit # None /\ lastBounces >= max_bounce) =>
        /\ pc = "done"
        /\ exit = "cap"
        /\ lastScat = None
        /\ scatterCalls = Len(atts)
        /\ emitCalls = Len(ems)
        /\ Len(atts) = lastBounces
        /\ Len(ems) = lastBounces
        /\ result = Vec3_mul(ProdSeq(atts), Vec3_add(sky_color, SumSeq(ems)))
        /\ max_bounce = 0 => result = Vec3_mul(Vec3_ONE, sky_color)

\* C4 witness: the cap is reached on a light after bounces off emitting
\* surfaces; the light's own emission is not in the result.
C4_Witness ==
    /\ pc = "done"
    /\ exit = "cap"
    /\ max_bounce > 0
    /\ lastHit # None
    /\ lastHit[1].material = mat_5
    /\ result # Vec3_ZERO

\* C4 witness for max_bounce = 0.
C4_WitnessZeroDepth ==
    /\ pc = "done"
    /\ exit = "cap"
    /\ max_bounce = 0
    /\ hitCalls = 1

\* C11: in every tracing state of color, reached after k scattering steps
\* (k = Len(atts), 0 <= k <= max_bounce): bounces = k, factor is the
\* component-wise product of the k attenuations returned so far (all-ones for
\* k = 0), emit is the unweighted sum of material.emit(rec) over those k hits
\* (zero for k = 0), and ray is the scattered ray of the k-th hit; each
\* scattering step raised bounces by exactly one.
C11_TracingStateAfterKSteps ==
    pc = "tracing" =>
        /\ Len(atts) \in 0..max_bounce
        /\ Len(ems) = Len(atts)
        /\ bounces = Len(atts)
        /\ bounces = scatterCalls
        /\ factor = ProdSeq(atts)
        /\ emit = SumSeq(ems)
        /\ Len(atts) = 0 => ray \in CameraRays
        /\ Len(atts) > 0 =>
               /\ bounces = lastBounces + 1
               /\ lastHit # None
               /\ lastScat # None
               /\ ~Absorbs(lastScat[1])
               /\ ray = lastScat[1][1].scattered
               /\ atts[Len(atts)] = lastScat[1][1].attenuation
               /\ ems[Len(ems)] = Material_emit(lastHit[1].material, lastHit[1])

\* C11 witness: a tracing state after the greatest number of scattering
\* steps, at least two, each hit emitting and attenuating.
C11_Witness ==
    /\ pc = "tracing"
    /\ bounces = max_bounce
    /\ bounces >= 2
    /\ ems[1] # Vec3_ZERO
    /\ ems[2] # Vec3_ZERO
    /\ emit = Vec3_add(ems[1], ems[2])
    /\ factor \notin {Vec3_ONE, Vec3_ZERO}
    /\ ray # Ray_ZERO

-----------------------------------------------------------------------------
(* Model::hit on a scene built from spheres and nested lists               *)

RECURSIVE Flatten(_)
RECURSIVE FlattenAll(_)
\* The spheres of a subtree, in the order the scan visits them.
Flatten(m) == IF m.kind = "Sphere" THEN <<m>> ELSE FlattenAll(m.list)

FlattenAll(list) ==
    IF list = <<>> THEN <<>> ELSE Flatten(Head(list)) \o FlattenAll(Tail(list))

\* Most children of the top-level list, and most spheres of a scene.
MaxChildren == 2
MaxSpheres == 3

\* Spheres on and off the z axis; the last has a negative radius.
SceneSpheres ==
    {Model_sphere(vec3(0, 0, 0), F(1), mat_1),
     Model_sphere(vec3(0, 0, F(2)), F(1), mat_3),
     Model_sphere(vec3(F(3), 0, 0), F(1), mat_2),
     Model_sphere(vec3(0, 0, F(3)), F(-2), mat_4)}

\* Intersection tests <<ray, t_min, t_max>>: rays down the z axis with
\* ranges that accept a root of every sphere on the axis, or reject the far
\* roots, or reject every root.
SceneQueries ==
    {<<Ray_new(vec3(0, 0, F(5)), vec3(0, 0, F(-1))), 0, F(100)>>,
     <<Ray_new(vec3(0, 0, F(5)), vec3(0, 0, F(-2))), 0, F(3)>>,
     <<Ray_new(vec3(0, 0, F(5)), vec3(0, 0, F(-1))), 0, F(2)>>}

InitHit ==
    /\ world = Model_list(<<>>)
    /\ hpc = "build"
    /\ hit_ray = Ray_ZERO
    /\ t_min = 0
    /\ t_max = 0
    /\ idx = 0
    /\ closest_so_far = 0
    /\ hit_record = None
    /\ hit_result = None
    /\ IdleColor
    /\ IdleRender
    /\ IdleMat

\* Model::sphere(..) pushed onto the top-level list.
AddSphere(s) ==
    /\ hpc = "build"
    /\ Len(world.list) < MaxChildren
    /\ Len(Flatten(world)) < MaxSpheres
    /\ world' = Model_list(Append(world.list, s))
    /\ UNCHANGED <<hpc, hit_ray, t_min, t_max, idx, closest_so_far,
                   hit_record, hit_result>>
    /\ UNCHANGED <<colorVars, renderVars, matVars>>

\* Model::list(vec![]) pushed onto the top-level list.
AddList ==
    /\ hpc = "build"
    /\ Len(world.list) < MaxChildren
    /\ world' = Model_list(Append(world.list, Model_list(<<>>)))
    /\ UNCHANGED <<hpc, hit_ray, t_min, t_max, idx, closest_so_far,
                   hit_record, hit_result>>
    /\ UNCHANGED <<colorVars, renderVars, matVars>>

\* A sphere pushed onto the nested list that is the last child.
AddNested(s) ==
    /\ hpc = "build"
    /\ Len(world.list) > 0
    /\ LET n == Len(world.list)
           last == world.list[n]
       IN  /\ last.kind = "List"
           /\ Len(Flatten(world)) < MaxSpheres
           /\ world' = Model_list([world.list EXCEPT
                                     ![n] = Model_list(Append(last.list, s))])
    /\ UNCHANGED <<hpc, hit_ray, t_min, t_max, idx, closest_so_far,
                   hit_record, hit_result>>
    /\ UNCHANGED <<colorVars, renderVars, matVars>>

\* world.hit(r, tmin, tmax) is entered: hit_record = None,
\* closest_so_far = t_max.
HitStart(r, tmin, tmax) ==
    /\ hpc = "build"
    /\ hpc' = "scan"
    /\ hit_ray' = r
    /\ t_min' = tmin
    /\ t_max' = tmax
    /\ idx' = 1
    /\ closest_so_far' = tmax
    /\ hit_record' = None
    /\ UNCHANGED <<world, hit_result>>
    /\ UNCHANGED <<colorVars, renderVars, matVars>>

\* One iteration of `for hittable in list`.
HitScanChild ==
    /\ hpc = "scan"
    /\ idx <= Len(world.list)
    /\ LET acc == List_scan_update(
                      <<closest_so_far, hit_record>>,
                      Model_hit(world.list[idx], hit_ray, t_min, closest_so_far))
       IN  /\ closest_so_far' = acc[1]
           /\ hit_record' = acc[2]
    /\ idx' = idx + 1
    /\ UNCHANGED <<world, hpc, hit_ray, t_min, t_max, hit_result>>
    /\ UNCHANGED <<colorVars, renderVars, matVars>>

\* The loop is over: hit_record is returned.
HitReturn ==
    /\ hpc = "scan"
    /\ idx > Len(world.list)
    /\ hit_result' = hit_record
    /\ hpc' = "done"
    /\ UNCHANGED <<world, hit_ray, t_min, t_max, idx, closest_so_far,
                   hit_record>>
    /\ UNCHANGED <<colorVars, renderVars, matVars>>

NextHit ==
    \/ \E s \in SceneSpheres : AddSphere(s)
    \/ AddList
    \/ \E s \in SceneSpheres : AddNested(s)
    \/ \E q \in SceneQueries : HitStart(q[1], q[2], q[3])
    \/ HitScanChild
    \/ HitReturn

SpecHit == InitHit /\ [][NextHit]_vars

-----------------------------------------------------------------------------
(* Properties of Model::hit                                                *)

RECURSIVE ClosestHit(_, _, _, _)
\* Of the hits that the spheres of the sequence accept in the open range
\* (tmin, tmax), each tested on its own, the one of minimum parameter, the
\* first in scan order among equal ones; None when no sphere accepts a hit.
ClosestHit(spheres, r, tmin, tmax) ==
    IF spheres = <<>> THEN None
    ELSE LET first == Sphere_hit(Head(spheres), r, tmin, tmax)
             rest == ClosestHit(Tail(spheres), r, tmin, tmax)
         IN  IF first = None THEN rest
             ELSE IF rest = None THEN first
             ELSE IF rest[1].parameter < first[1].parameter THEN rest
             ELSE first

\* The children of the top-level list scanned so far.
Scanned == SubSeq(world.list, 1, idx - 1)

\* C5: List.hit returns none exactly when no sphere of the subtree accepts a
\* hit in (t_min, t_max), and otherwise the hit of minimum parameter; while
\* scanning, the record held is the closest hit of the children scanned so
\* far, so a later child never replaces it by a hit that is not closer.
C5_ListHitReturnsClosest ==
    /\ hpc = "scan" =>
          /\ hit_record = ClosestHit(FlattenAll(Scanned), hit_ray, t_min, t_max)
          /\ closest_so_far =
                IF hit_record = None THEN t_max ELSE hit_record[1].parameter
    /\ hpc = "done" =>
          /\ hit_result = ClosestHit(Flatten(world), hit_ray, t_min, t_max)
          /\ hit_result # None =>
                /\ t_min < hit_result[1].parameter
                /\ hit_result[1].parameter < t_max

\* C5 witness: a nested list scanned second holds a farther and then a
\* nearer sphere, both nearer than the sphere scanned first: the last one of
\* the nested list is returned.
C5_Witness ==
    /\ hpc = "done"
    /\ Len(world.list) = 2
    /\ world.list[1].kind = "Sphere"
    /\ world.list[2].kind = "List"
    /\ Len(world.list[2].list) = 2
    /\ Sphere_hit(world.list[2].list[1], hit_ray, t_min, t_max) # None
    /\ hit_result = Sphere_hit(world.list[2].list[2], hit_ray, t_min, t_max)
    /\ hit_result # Sphere_hit(world.list[2].list[1], hit_ray, t_min, t_max)
    /\ Sphere_hit(world.list[1], hit_ray, t_min, t_max) # None
    /\ hit_result # None
    /\ hit_result # Sphere_hit(world.list[1], hit_ray, t_min, t_max)
    /\ hit_result[1].parameter
         < Sphere_hit(world.list[1], hit_ray, t_min, t_max)[1].parameter

\* C5 witness: a later sphere with the same parameter as the hit already
\* found does not replace it.
C5_WitnessTie ==
    /\ hpc = "done"
    /\ Len(world.list) = 2
    /\ world.list[1].kind = "Sphere"
    /\ world.list[2].kind = "Sphere"
    /\ world.list[1] # world.list[2]
    /\ hit_result # None
    /\ hit_result = Sphere_hit(world.list[1], hit_ray, t_min, t_max)
    /\ Sphere_hit(world.list[2], hit_ray, t_min, t_max) # None
    /\ Sphere_hit(world.list[2], hit_ray, t_min, t_max)[1].parameter
         = hit_result[1].parameter

\* C5 witness: a scene with spheres in it returns none.
C5_WitnessNone ==
    /\ hpc = "done"
    /\ Len(Flatten(world)) > 0
    /\ hit_result = None

-----------------------------------------------------------------------------
(* fn main: the parallel per-pixel renderer                                *)

\* Largest image explored.
MaxWidth == 2
MaxHeight == 2

\* let ns = 1000u32
ns == 1000

Pixels == {<<i, j>> : i \in 0..(nx - 1), j \in 0..(ny - 1)}

\* What the samples of pixel (i, j) see when they hit the light: a colour
\* that differs from pixel to pixel.
SampleColor(i, j) == vec3((i + 1) * 20, (j + 1) * 30, F(1))

Seeds == {0, 1}

\* The number of the ns samples of pixel (i, j) that return SampleColor
\* (the others return black) under the seed sd: all of them or none.
SampleCount(sd, i, j) == IF (i + j + sd) % 2 = 0 THEN ns ELSE 0

\* .reduce(|| Vec3::ZERO, |a, b| a + b) over the ns samples
SampleSum(sd, i, j) == Vec3_scale(SampleColor(i, j), F(SampleCount(sd, i, j)))

\* f.max(0.0).min(1.0)
Clamp01(f) == IF f < 0 THEN 0 ELSE IF f > F(1) THEN F(1) ELSE f

\* `as u8`: truncation, saturating at 0 and 255
AsU8(f) ==
    LET t == TDiv(f, Scale)
    IN  IF t < 0 THEN 0 ELSE IF t > 255 THEN 255 ELSE t

\* 255.99 * (col / ns).map(sqrt).map(clamp), then Rgb([x as u8, ..])
ToRgb(col) ==
    LET avg == Vec3_div(col, F(ns))
        Channel(f) == AsU8(FMul(25599, Clamp01(FSqrt(f))))
    IN  <<Channel(avg[1]), Channel(avg[2]), Channel(avg[3])>>

\* The coordinate that for_each writes for the item (x, y, pixel), swapped.
PutPixelAtSwapped(t) == <<t[2], t[1]>>

\* buf.put_pixel(x, y, pixel) for the item (x, y, pixel)
PutPixelAt(t) == <<t[1], t[2]>>

\* pb.inc(delta) that sets the position instead of adding to it.
ProgressBar_set(pos, delta) == delta

\* pb.inc(delta)
ProgressBar_inc(pos, delta) == pos + delta

\* The order of the collected Vec: rows j in order, and i in order within
\* a row.
CollectOrder(k) == <<(k - 1) % nx, (k - 1) \div nx>>

InitRender ==
    /\ nx \in 1..MaxWidth
    /\ ny \in 1..MaxHeight
    /\ item = [p \in Pixels |-> None]
    /\ inspected = {}
    /\ pb = 0
    /\ collected = <<>>
    /\ buf = [p \in Pixels |-> <<0, 0, 0>>]
    /\ wi = 0
    /\ rpc = "render"
    /\ seed \in Seeds
    /\ drawn = [p \in Pixels |-> None]
    /\ written = [p \in Pixels |-> 0]
    /\ IdleColor
    /\ IdleHit
    /\ IdleMat

\* A worker runs the map_with closure for pixel (i, j): it sums the samples
\* and yields (i, j, Rgb).
RenderMap(i, j) ==
    /\ rpc = "render"
    /\ <<i, j>> \in Pixels
    /\ item[<<i, j>>] = None
    /\ LET col == SampleSum(seed, i, j)
       IN  /\ item' = [item EXCEPT ![<<i, j>>] = Some(<<i, j, ToRgb(col)>>)]
           /\ drawn' = [drawn EXCEPT ![<<i, j>>] = Some(col)]
    /\ UNCHANGED <<nx, ny, seed, inspected, pb, collected, buf, wi, rpc, written>>
    /\ UNCHANGED <<colorVars, hitVars, matVars>>

\* The item of pixel (i, j) passes .inspect(|_| pb.inc(1)).
RenderInspect(i, j) ==
    /\ rpc = "render"
    /\ <<i, j>> \in Pixels
    /\ item[<<i, j>>] # None
    /\ <<i, j>> \notin inspected
    /\ inspected' = inspected \cup {<<i, j>>}
    /\ pb' = ProgressBar_inc(pb, 1)
    /\ UNCHANGED <<nx, ny, seed, item, collected, buf, wi, rpc, drawn, written>>
    /\ UNCHANGED <<colorVars, hitVars, matVars>>

\* .collect::<Vec<_>>() returns once every item has been produced.
RenderCollect ==
    /\ rpc = "render"
    /\ inspected = Pixels
    /\ collected' = [k \in 1..(nx * ny) |-> item[CollectOrder(k)][1]]
    /\ wi' = 1
    /\ rpc' = "write"
    /\ UNCHANGED <<nx, ny, seed, item, inspected, pb, buf, drawn, written>>
    /\ UNCHANGED <<colorVars, hitVars, matVars>>

\* One step of .for_each(|(x, y, pixel)| buf.put_pixel(x, y, pixel));
\* put_pixel panics on a coordinate outside the image.
RenderPutPixel ==
    /\ rpc = "write"
    /\ wi <= Len(collected)
    /\ LET t == collected[wi]
           at == PutPixelAt(t)
       IN  IF at \in Pixels
           THEN /\ buf' = [buf EXCEPT ![at] = t[3]]
                /\ written' = [written EXCEPT ![at] = @ + 1]
                /\ wi' = wi + 1
                /\ UNCHANGED rpc
           ELSE /\ rpc' = "panic"
                /\ UNCHANGED <<buf, written, wi>>
    /\ UNCHANGED <<nx, ny, seed, item, inspected, pb, collected, drawn>>
    /\ UNCHANGED <<colorVars, hitVars, matVars>>

\* The buffer is complete and handed to buf.save(..).
RenderSave ==
    /\ rpc = "write"
    /\ wi > Len(collected)
    /\ rpc' = "saved"
    /\ UNCHANGED <<nx, ny, seed, item, inspected, pb, collected, buf, wi,
                   drawn, written>>
    /\ UNCHANGED <<colorVars, hitVars, matVars>>

NextRender ==
    \/ \E i \in 0..(MaxWidth - 1), j \in 0..(MaxHeight - 1) : RenderMap(i, j)
    \/ \E i \in 0..(MaxWidth - 1), j \in 0..(MaxHeight - 1) : RenderInspect(i, j)
    \/ RenderCollect
    \/ RenderPutPixel
    \/ RenderSave

SpecRender == InitRender /\ [][NextRender]_vars

-----------------------------------------------------------------------------
(* Properties of the renderer                                              *)

\* C6: under every interleaving of the per-pixel workers no coordinate
\* outside the image is written, no coordinate is written twice, and when
\* rendering has finished every coordinate (i, j) of the image has been
\* written exactly once, with the colour computed for (i, j).
C6_EachPixelWrittenOnce ==
    /\ rpc # "panic"
    /\ rpc \in {"render", "write", "saved"} =>
          \A p \in Pixels : written[p] <= 1
    /\ rpc = "saved" =>
          \A p \in Pixels :
              /\ written[p] = 1
              /\ drawn[p] = Some(SampleSum(seed, p[1], p[2]))
              /\ buf[p] = ToRgb(drawn[p][1])

\* C6 witness: a finished render of the largest image, not all of one colour.
C6_Witness ==
    /\ rpc = "saved"
    /\ nx = MaxWidth
    /\ ny = MaxHeight
    /\ \E p \in Pixels, q \in Pixels : buf[p] # buf[q]
    /\ \A p \in Pixels : written[p] = 1

\* C7: the progress counter never decreases, changes only by increments of
\* one, counts the pixels completed so far under every interleaving, and
\* equals nx * ny once the parallel iterator has been collected.
C7_ProgressCounterCountsPixels ==
    [][/\ pb' = pb \/ pb' = pb + 1
       /\ pb' = Cardinality(inspected')
       /\ rpc' \in {"write", "saved"} => pb' = nx' * ny']_vars

\* C7 witness: the render of the largest image has finished with the counter
\* at nx * ny.
C7_Witness ==
    /\ rpc = "saved"
    /\ nx * ny = MaxWidth * MaxHeight
    /\ pb = nx * ny

-----------------------------------------------------------------------------
(* Construction and use of one material                                    *)

\* Deepest nesting of Combined materials explored.
MaxNesting == 1

Albedos == {vec3(80, 60, 20), Vec3_ZERO}

\* Arguments of Metal::new: below 0, inside [0, 1] and above 1.
FuzzArgs == {-50, 0, 50, 100, 150, 300}

RefIndices == {150, 200}

Emittances == {vec3(100, 90, 40), Vec3_ZERO}

\* The materials a Combined is paired with.
Partners == {mat_1, mat_3, mat_4, mat_5}

RECURSIVE Nesting(_)
Nesting(m) ==
    IF m.kind = "Combined"
    THEN 1 + (IF Nesting(m.scatterer) > Nesting(m.emitter)
              THEN Nesting(m.scatterer) ELSE Nesting(m.emitter))
    ELSE 0

InitMat ==
    /\ mat = None
    /\ fuzz_arg = None
    /\ call = None
    /\ IdleColor
    /\ IdleHit
    /\ IdleRender

MatNewLambertian(albedo) ==
    /\ mat = None
    /\ mat' = Some(Lambertian_new(albedo))
    /\ UNCHANGED <<fuzz_arg, call>>
    /\ UNCHANGED <<colorVars, hitVars, renderVars>>

MatNewMetal(albedo, fuzz) ==
    /\ mat = None
    /\ mat' = Some(Metal_new(albedo, fuzz))
    /\ fuzz_arg' = Some(fuzz)
    /\ UNCHANGED call
    /\ UNCHANGED <<colorVars, hitVars, renderVars>>

MatNewDielectric(ref_idx) ==
    /\ mat = None
    /\ mat' = Some(Dielectric_new(ref_idx))
    /\ UNCHANGED <<fuzz_arg, call>>
    /\ UNCHANGED <<colorVars, hitVars, renderVars>>

MatNewDiffuseLight(emittance) ==
    /\ mat = None
    /\ mat' = Some(DiffuseLight_new(emittance))
    /\ UNCHANGED <<fuzz_arg, call>>
    /\ UNCHANGED <<colorVars, hitVars, renderVars>>

\* Material::Combined { scatterer, emitter } around the material built so
\* far and a partner.
MatNewCombined(partner, asScatterer) ==
    /\ mat # None
    /\ call = None
    /\ Nesting(mat[1]) < MaxNesting
    /\ mat' = Some(IF asScatterer THEN Combined(mat[1], partner)
                   ELSE Combined(partner, mat[1]))
    /\ fuzz_arg' = None
    /\ UNCHANGED call
    /\ UNCHANGED <<colorVars, hitVars, renderVars>>

\* material.scatter(r_in, &rec)
MatScatter(r_in, rec, rnd) ==
    /\ mat # None
    /\ call = None
    /\ call' = Some([op |-> "scatter", r_in |-> r_in, rec |-> rec, rnd |-> rnd,
                     out |-> Material_scatter(mat[1], r_in, rec, rnd)])
    /\ UNCHANGED <<mat, fuzz_arg>>
    /\ UNCHANGED <<colorVars, hitVars, renderVars>>

\* material.emit(rec)
MatEmit(rec) ==
    /\ mat # None
    /\ call = None
    /\ call' = Some([op |-> "emit", rec |-> rec,
                     out |-> Material_emit(mat[1], rec)])
    /\ UNCHANGED <<mat, fuzz_arg>>
    /\ UNCHANGED <<colorVars, hitVars, renderVars>>

\* The hit records handed to a material: the material field is the material
\* itself.
MatRecs == {Hit(F(1), pt, n, None) : pt \in HitPoints, n \in HitNormals}

\* Values of random_in_unit_sphere() handed to a material called on its own:
\* those of the integrator and two points below the surface.
MatRandPoints == RandPoints \cup {vec3(0, 0, -70), vec3(0, 0, -90)}

MatRnd == [p : MatRandPoints, u : RandUniform]

NextMat ==
    \/ \E a \in Albedos : MatNewLambertian(a)
    \/ \E a \in Albedos, f \in FuzzArgs : MatNewMetal(a, f)
    \/ \E n \in RefIndices : MatNewDielectric(n)
    \/ \E e \in Emittances : MatNewDiffuseLight(e)
    \/ \E m \in Partners, b \in BOOLEAN : MatNewCombined(m, b)
    \/ \E r \in CameraRays, rec \in MatRecs, rnd \in MatRnd :
          MatScatter(r, rec, rnd)
    \/ \E rec \in MatRecs : MatEmit(rec)

SpecMat == InitMat /\ [][NextMat]_vars

-----------------------------------------------------------------------------
(* Sphere::hit called on one sphere                                        *)

\* Centers and signed radii of the spheres tested: on the axis of the rays,
\* tangent to it, off it, and around the origin of a ray.
SphereCenters ==
    {vec3(0, 0, 0), vec3(0, 0, F(2)), vec3(F(1), 0, 0), vec3(F(3), 0, 0)}

SphereRadii == {F(1), F(2), F(-2), F(5)}

SphereMaterials == {mat_1, mat_4}

SphereRays ==
    {Ray_new(vec3(0, 0, F(5)), vec3(0, 0, F(-1))),
     Ray_new(vec3(0, 0, F(5)), vec3(0, 0, F(-2))),
     Ray_new(vec3(0, 0, 0), vec3(0, 0, F(1)))}

\* Ranges <<t_min, t_max>>; the unit sphere at the origin meets the first ray
\* at the parameters 4 and 6.
SphereRanges ==
    {<<0, F(100)>>, <<F(4), F(100)>>, <<F(4), F(6)>>, <<0, F(4)>>}

InitSphere ==
    /\ \E c \in SphereCenters, rad \in SphereRadii, m \in SphereMaterials :
           world = Model_sphere(c, rad, m)
    /\ hpc = "sphere"
    /\ hit_ray = Ray_ZERO
    /\ t_min = 0
    /\ t_max = 0
    /\ idx = 0
    /\ closest_so_far = 0
    /\ hit_record = None
    /\ hit_result = None
    /\ IdleColor
    /\ IdleRender
    /\ IdleMat

\* sphere.hit(r, tmin, tmax) is called and returns.
SphereHitCall(r, tmin, tmax) ==
    /\ hpc = "sphere"
    /\ hpc' = "returned"
    /\ hit_ray' = r
    /\ t_min' = tmin
    /\ t_max' = tmax
    /\ hit_result' = Model_hit(world, r, tmin, tmax)
    /\ UNCHANGED <<world, idx, closest_so_far, hit_record>>
    /\ UNCHANGED <<colorVars, renderVars, matVars>>

NextSphere ==
    \E r \in SphereRays, rg \in SphereRanges : SphereHitCall(r, rg[1], rg[2])

SpecSphere == InitSphere /\ [][NextSphere]_vars

-----------------------------------------------------------------------------
(* The whole model: any one of the components is exercised.                *)

Init == InitColor \/ InitHit \/ InitSphere \/ InitRender \/ InitMat

Next == NextColor \/ NextHit \/ NextSphere \/ NextRender \/ NextMat

Spec == Init /\ [][Next]_vars

-----------------------------------------------------------------------------
(* Properties of the materials                                             *)

RECURSIVE Scatterer(_)
\* The material a chain of Combined materials delegates scattering to.
Scatterer(m) == IF m.kind = "Combined" THEN Scatterer(m.scatterer) ELSE m

RECURSIVE Emitter(_)
\* The material a chain of Combined materials delegates emission to.
Emitter(m) == IF m.kind = "Combined" THEN Emitter(m.emitter) ELSE m

\* What the variant m, not a Combined, returns from scatter.
VariantScatter(m, r_in, rec, rnd) ==
    CASE m.kind = "Lambertian" -> Lambertian_scatter(m, r_in, rec, rnd)
      [] m.kind = "Metal" -> Metal_scatter(m, r_in, rec, rnd)
      [] m.kind = "Dielectric" -> Dielectric_scatter(m, r_in, rec, rnd)
      [] m.kind = "DiffuseLight" -> None

\* What the variant m, not a Combined, returns from emit.
VariantEmit(m) == IF m.kind = "DiffuseLight" THEN m.emittance ELSE Vec3_ZERO

C8_WitnessScatter ==
    /\ mat # None
    /\ mat[1].kind = "Combined"
    /\ mat[1].scatterer.kind = "Metal"
    /\ mat[1].emitter.kind = "DiffuseLight"
    /\ call # None
    /\ call[1].op = "scatter"
    /\ call[1].out # None
    /\ call[1].out[1].attenuation = mat[1].scatterer.albedo

\* C9: a DiffuseLight absorbs every ray and emits its emittance for every
\* hit; Lambertian, Metal and Dielectric emit the zero colour.
C9_LightAbsorbsAndOthersDoNotEmit ==
    (mat # None /\ call # None) =>
        LET m == mat[1]
            c == call[1]
        IN  /\ (m.kind = "DiffuseLight" /\ c.op = "scatter") => c.out = None
            /\ (m.kind = "DiffuseLight" /\ c.op = "emit") =>
                  c.out = m.emittance
            /\ (m.kind \in {"Lambertian", "Metal", "Dielectric"}
                  /\ c.op = "emit") => c.out = Vec3_ZERO

\* C9 witness: a light of non-zero emittance has emitted it.
C9_Witness ==
    /\ mat # None
    /\ mat[1].kind = "DiffuseLight"
    /\ mat[1].emittance \notin {Vec3_ZERO, Vec3_ONE}
    /\ call # None
    /\ call[1].op = "emit"
    /\ call[1].out = mat[1].emittance

\* C9 witness: scatter was called on a light.
C9_WitnessScatter ==
    /\ mat # None
    /\ mat[1].kind = "DiffuseLight"
    /\ call # None
    /\ call[1].op = "scatter"
    /\ call[1].out = None

\* C10 (as stated): whatever fuzz is passed to Metal::new, the stored fuzz
\* lies in [0, 1]: a value above 1 is stored as 1.0 and a value in [0, 1] is
\* stored unchanged.
C10_StoredFuzzInUnitInterval ==
    (mat # None /\ fuzz_arg # None /\ mat[1].kind = "Metal") =>
        /\ 0 <= mat[1].fuzz
        /\ mat[1].fuzz <= F(1)
        /\ fuzz_arg[1] > F(1) => mat[1].fuzz = F(1)
        /\ (0 <= fuzz_arg[1] /\ fuzz_arg[1] <= F(1)) =>
              mat[1].fuzz = fuzz_arg[1]

-----------------------------------------------------------------------------
(* Properties of Sphere::hit                                               *)

\* discriminant = b * b - a * c of the quadratic a t^2 + 2 b t + c = 0.
SphereDiscriminant(s, r) ==
    LET oc == Vec3_sub(r.origin, s.center)
        a == Vec3_dot(r.direction, r.direction)
        b == Vec3_dot(oc, r.direction)
        c == Vec3_dot(oc, oc) - FMul(s.radius, s.radius)
    IN  FMul(b, b) - FMul(a, c)

\* The root (-b + sign * sqrt(discriminant)) / a, sign = -1 for the smaller.
SphereRoot(s, r, sign) ==
    LET oc == Vec3_sub(r.origin, s.center)
        a == Vec3_dot(r.direction, r.direction)
        b == Vec3_dot(oc, r.direction)
    IN  FDiv(-b + sign * FSqrt(SphereDiscriminant(s, r)), a)

\* C12: Sphere.hit returns no hit when discriminant <= 0; otherwise the
\* smaller root t1 when t_min < t1 < t_max, else the larger root t2 when
\* t_min < t2 < t_max, else no hit. Every returned hit has its parameter
\* strictly inside (t_min, t_max), its point is ray.point_at_parameter of it,
\* and its normal is (point - center) / radius with the signed radius.
C12_SphereHitReturnsNearestRootInRange ==
    hpc = "returned" =>
        LET disc == SphereDiscriminant(world, hit_ray)
            t1 == SphereRoot(world, hit_ray, -1)
            t2 == SphereRoot(world, hit_ray, 1)
            in1 == t_min < t1 /\ t1 < t_max
            in2 == t_min < t2 /\ t2 < t_max
        IN  /\ disc <= 0 => hit_result = None
            /\ disc > 0 =>
                   /\ t1 <= t2
                   /\ in1 => hit_result # None /\ hit_result[1].parameter = t1
                   /\ ~in1 /\ in2 =>
                          hit_result # None /\ hit_result[1].parameter = t2
                   /\ ~in1 /\ ~in2 => hit_result = None
            /\ hit_result # None =>
                   LET h == hit_result[1]
                   IN  /\ t_min < h.parameter
                       /\ h.parameter < t_max
                       /\ h.point = Ray_point_at_parameter(hit_ray, h.parameter)
                       /\ h.normal = Vec3_div(Vec3_sub(h.point, world.center),
                                              world.radius)
                       /\ h.material = world.material

\* C12 witness: the smaller root lies on the lower end of the range, so the
\* larger root is returned; the radius is negative and the normal points
\* towards the center.
C12_Witness ==
    /\ hpc = "returned"
    /\ SphereDiscriminant(world, hit_ray) > 0
    /\ SphereRoot(world, hit_ray, -1) = t_min
    /\ hit_result # None
    /\ hit_result[1].parameter = SphereRoot(world, hit_ray, 1)
    /\ hit_result[1].parameter > t_min
    /\ world.radius < 0
    /\ Vec3_dot(hit_result[1].normal,
                Vec3_sub(hit_result[1].point, world.center)) < 0

\* C12 witness for the smaller root returned.
C12_WitnessSmallerRoot ==
    /\ hpc = "returned"
    /\ hit_result # None
    /\ hit_result[1].parameter = SphereRoot(world, hit_ray, -1)
    /\ hit_result[1].parameter < SphereRoot(world, hit_ray, 1)
    /\ t_min < SphereRoot(world, hit_ray, 1)
    /\ SphereRoot(world, hit_ray, 1) < t_max

\* C12 witness for a ray tangent to the sphere: discriminant = 0, no hit.
C12_WitnessTangent ==
    /\ hpc = "returned"
    /\ SphereDiscriminant(world, hit_ray) = 0
    /\ hit_result = None

\* C12 witness for a ray that meets the sphere outside the range only: the
\* smaller root is t_max.
C12_WitnessOutOfRange ==
    /\ hpc = "returned"
    /\ SphereDiscriminant(world, hit_ray) > 0
    /\ SphereRoot(world, hit_ray, -1) = t_max
    /\ hit_result = None

-----------------------------------------------------------------------------
(* Properties of Dielectric::scatter                                       *)

\* The ray leaves the medium: it travels along the normal.
DielectricLeaving(r_in, rec) == Vec3_dot(r_in.direction, rec.normal) > 0

\* What refract returns for the hit: the refracted direction, or None when
\* its discriminant is <= 0.
DielectricRefracted(m, r_in, rec) ==
    IF DielectricLeaving(r_in, rec)
    THEN Dielectric_refract(r_in.direction, Vec3_neg(rec.normal), m.ref_idx)
    ELSE Dielectric_refract(r_in.direction, rec.normal, FDiv(F(1), m.ref_idx))

\* The uniform draw u is below the Schlick reflectance of the hit. The
\* reflectance of a leaving ray is computed from a square root; when its
\* radicand is negative the reflectance is NaN and the comparison is false.
DielectricDrawReflects(m, r_in, rec, u) ==
    LET c0 == FDiv(Vec3_dot(r_in.direction, rec.normal),
                   Vec3_mag(r_in.direction))
        radicand == F(1) - FMul(FMul(m.ref_idx, m.ref_idx),
                                F(1) - FMul(c0, c0))
    IN  IF DielectricLeaving(r_in, rec)
        THEN radicand >= 0 /\ u < Dielectric_schlick(FSqrt(radicand), m.ref_idx)
        ELSE u < Dielectric_schlick(-c0, m.ref_idx)

\* C13: Dielectric.scatter never absorbs and its attenuation is (1, 1, 1).
\* When refraction is impossible (refract's discriminant <= 0) the scattered
\* ray is the mirror reflection from the hit point whatever the draw, so the
\* zero vector that stands for the missing refraction is never a scattered
\* direction. When refraction is possible the scattered ray is the reflection
\* if the uniform draw is below the Schlick reflectance and the refracted ray
\* otherwise.
C13_DielectricNeverAbsorbsAndReflectsWhenNoRefraction ==
    (mat # None /\ call # None /\ mat[1].kind = "Dielectric"
        /\ call[1].op = "scatter") =>
        LET c == call[1]
            refracted == DielectricRefracted(mat[1], c.r_in, c.rec)
            reflection ==
                Ray_new(c.rec.point, reflect(c.r_in.direction, c.rec.normal))
        IN  /\ c.out # None
            /\ c.out[1].attenuation = Vec3_ONE
            /\ c.out[1].scattered.origin = c.rec.point
            /\ c.out[1].scattered.direction # Vec3_ZERO
            /\ refracted = None => c.out[1].scattered = reflection
            /\ refracted # None =>
                   IF DielectricDrawReflects(mat[1], c.r_in, c.rec, c.rnd.u)
                   THEN c.out[1].scattered = reflection
                   ELSE c.out[1].scattered = Ray_new(c.rec.point, refracted[1])

\* C13 witness: total internal reflection with a draw just below 1; the
\* scattered ray is the reflection.
C13_Witness ==
    /\ mat # None
    /\ call # None
    /\ mat[1].kind = "Dielectric"
    /\ call[1].op = "scatter"
    /\ DielectricLeaving(call[1].r_in, call[1].rec)
    /\ DielectricRefracted(mat[1], call[1].r_in, call[1].rec) = None
    /\ call[1].rnd.u = 99
    /\ call[1].out # None
    /\ call[1].out[1].scattered.direction =
           reflect(call[1].r_in.direction, call[1].rec.normal)
    /\ call[1].out[1].scattered.direction # Vec3_ZERO

\* C13 witness for a refracted ray: refraction is possible and the draw is
\* not below the reflectance.
C13_WitnessRefracted ==
    /\ mat # None
    /\ call # None
    /\ mat[1].kind = "Dielectric"
    /\ call[1].op = "scatter"
    /\ DielectricRefracted(mat[1], call[1].r_in, call[1].rec) # None
    /\ ~DielectricDrawReflects(mat[1], call[1].r_in, call[1].rec,
                               call[1].rnd.u)
    /\ call[1].out[1].scattered.direction =
           DielectricRefracted(mat[1], call[1].r_in, call[1].rec)[1]
    /\ call[1].out[1].scattered.direction #
           reflect(call[1].r_in.direction, call[1].rec.normal)

\* C13 witness for a reflection chosen by the draw although refraction is
\* possible.
C13_WitnessReflected ==
    /\ mat # None
    /\ call # None
    /\ mat[1].kind = "Dielectric"
    /\ call[1].op = "scatter"
    /\ DielectricRefracted(mat[1], call[1].r_in, call[1].rec) # None
    /\ DielectricDrawReflects(mat[1], call[1].r_in, call[1].rec, call[1].rnd.u)
    /\ call[1].out[1].scattered.direction =
           reflect(call[1].r_in.direction, call[1].rec.normal)

-----------------------------------------------------------------------------
(* Properties of Metal::scatter                                            *)

\* d' = reflect(unit(incoming), normal) + fuzz * randomPoint
MetalPerturbed(m, r_in, rec, rnd) ==
    Vec3_add(reflect(Vec3_unit(r_in.direction), rec.normal),
             Vec3_scale(rnd.p, m.fuzz))

\* C14: Metal.scatter absorbs exactly when the perturbed reflected direction
\* d' has dot(d', normal) <= 0; otherwise it returns the ray from the hit
\* point along d' with the albedo as attenuation. With fuzz = 0 a ray that
\* arrives against the normal (dot(incoming, normal) < 0) is never absorbed.
C14_MetalAbsorbsExactlyBackScatter ==
    (mat # None /\ call # None /\ mat[1].kind = "Metal"
        /\ call[1].op = "scatter") =>
        LET c == call[1]
            d == MetalPerturbed(mat[1], c.r_in, c.rec, c.rnd)
        IN  /\ (c.out = None) <=> (Vec3_dot(d, c.rec.normal) <= 0)
            /\ c.out # None =>
                   /\ c.out[1].scattered.origin = c.rec.point
                   /\ c.out[1].scattered.direction = d
                   /\ c.out[1].attenuation = mat[1].albedo
            /\ (mat[1].fuzz = 0
                   /\ Vec3_dot(c.r_in.direction, c.rec.normal) < 0) =>
                   c.out # None

\* C14 witness: a mirror (fuzz = 0) hit obliquely against the normal; the
\* ray is scattered along the reflection of the unit incoming direction.
C14_Witness ==
    /\ mat # None
    /\ call # None
    /\ mat[1].kind = "Metal"
    /\ call[1].op = "scatter"
    /\ mat[1].fuzz = 0
    /\ Vec3_dot(call[1].r_in.direction, call[1].rec.normal) < 0
    /\ call[1].r_in.direction[1] # 0
    /\ call[1].out # None
    /\ call[1].out[1].scattered.direction =
           reflect(Vec3_unit(call[1].r_in.direction), call[1].rec.normal)
    /\ call[1].out[1].attenuation = mat[1].albedo

\* C14 witness for a ray that arrives against the normal and is absorbed
\* because the perturbation turns the reflection into the surface.
C14_WitnessAbsorbedByFuzz ==
    /\ mat # None
    /\ call # None
    /\ mat[1].kind = "Metal"
    /\ call[1].op = "scatter"
    /\ Vec3_dot(call[1].r_in.direction, call[1].rec.normal) < 0
    /\ Vec3_dot(MetalPerturbed(mat[1], call[1].r_in, call[1].rec, call[1].rnd),
                call[1].rec.normal) < 0
    /\ call[1].out = None

\* C14 witness for a perturbed direction along the surface: the dot product
\* is 0 and the ray is absorbed.
C14_WitnessGrazing ==
    /\ mat # None
    /\ call # None
    /\ mat[1].kind = "Metal"
    /\ call[1].op = "scatter"
    /\ Vec3_dot(MetalPerturbed(mat[1], call[1].r_in, call[1].rec, call[1].rnd),
                call[1].rec.normal) = 0
    /\ call[1].out = None

\* C14 witness for a scattered ray whose direction is perturbed.
C14_WitnessPerturbed ==
    /\ mat # None
    /\ call # None
    /\ mat[1].kind = "Metal"
    /\ call[1].op = "scatter"
    /\ call[1].out # None
    /\ call[1].out[1].scattered.direction #
           reflect(Vec3_unit(call[1].r_in.direction), call[1].rec.normal)

====
